---- MODULE Spec2Model ----
(***************************************************************************)
(* Model of server.js and config/site-loader.js:                            *)
(*  - the authentication / rate-limiting core: the loginAttempts map,      *)
(*    checkRateLimit, recordFailedAttempt, the stored admin credential,    *)
(*    POST /api/auth/login and POST /api/auth/change-password;             *)
(*  - the search engine: normalizeWhitespace, levenshteinDistance,         *)
(*    fuzzyMatch, exactMatch, parseSearchQuery, librarySortKey, sortSongs  *)
(*    and GET /api/search;                                                 *)
(*  - the song and list routes over the data file;                         *)
(*  - getSiteByPath.                                                       *)
(***************************************************************************)
EXTENDS Integers, Sequences, FiniteSets, TLC

----------------------------------------------------------------------------
(* Program constants *)

MAX_ATTEMPTS == 5

LOCKOUT_TIME == 15 * 60 * 1000

\* admin.password written by ensureDataFile when the data file is created
InitialPassword == "admin123"

\* newPassword.length < 6 is rejected by change-password
MinNewPasswordLength == 6

----------------------------------------------------------------------------
(* Bounds of the model *)

\* the clock is observed at the start of the first lockout period, at
\* StepsPerWindow evenly spaced instants up to its last millisecond, and one
\* millisecond after it
StepsPerWindow == 2

\* recordFailedAttempt called directly is not followed beyond this count
MaxCount == 5

\* milliseconds that may pass between the Date.now() reads of one request
MaxHandlerMs == 1

\* client identifiers (req.ip)
Ips == {"10.0.0.1", "10.0.0.2"}

\* req.body fields: absent, or a string
undefined == "<undefined>"

Passwords == {InitialPassword, "hunter22"}

\* req.body.password, req.body.currentPassword
BodyValues == Passwords \cup {undefined}

\* req.body.newPassword: also a string shorter than MinNewPasswordLength
NewPasswordValues == BodyValues \cup {"short"}

\* values crypto.randomBytes(16).toString('hex') may return
Salts == {"5a17", "c0de"}

StepMs == LOCKOUT_TIME \div StepsPerWindow

Instants == {k * StepMs : k \in 0..StepsPerWindow} \cup {LOCKOUT_TIME + 1}

----------------------------------------------------------------------------
(* State *)

VARIABLES
    loginAttempts,   \* Map ip -> {count, firstAttempt}
    admin,           \* data.admin of the data file: {password} or {password, salt}
    now,             \* Date.now()
    res,             \* the last request and the response it was given
    adminPassword,   \* the password the administrator currently has (history)
    data             \* the rest of the data file: {songs, lists, stats}

vars == <<loginAttempts, admin, now, res, adminPassword, data>>

----------------------------------------------------------------------------
(* Helpers *)

\* JavaScript truthiness of a body field or of data.admin.salt
Truthy(v) == v # undefined /\ v # ""

\* Math.ceil(x / d) for integers
CeilDiv(x, d) == IF x % d = 0 THEN x \div d ELSE (x \div d) + 1

MapDelete_clear(m, k) == << >>

\* Map.prototype.delete
MapDelete(m, k) == [x \in (DOMAIN m) \ {k} |-> m[x]]

\* Map.prototype.set
MapSet(m, k, v) == [x \in (DOMAIN m) \cup {k} |-> IF x = k THEN v ELSE m[x]]

\* crypto.pbkdf2Sync(password, salt, 10000, 64, 'sha512').toString('hex'):
\* a string determined by (password, salt), injective per salt
hashPassword_saltOnly(password, salt) == "pbkdf2$" \o salt

hashPassword(password, salt) == "pbkdf2$" \o salt \o "$" \o password

HasSalt(a) == "salt" \in DOMAIN a /\ Truthy(a.salt)

----------------------------------------------------------------------------
(* checkRateLimit(ip) at time t: the value returned (ret), the map it leaves *)
(* (loginAttempts) and the count of the window it deleted as expired, 0 when *)
(* it deleted none (purged)                                                  *)

checkRateLimit_offByOne(la, ip, t) ==
    IF ip \notin DOMAIN la
    THEN [ret |-> [allowed |-> TRUE], loginAttempts |-> la, purged |-> 0]
    ELSE IF t - la[ip].firstAttempt > LOCKOUT_TIME
    THEN [ret |-> [allowed |-> TRUE], loginAttempts |-> MapDelete(la, ip),
          purged |-> la[ip].count]
    ELSE IF la[ip].count > MAX_ATTEMPTS
    THEN [ret |-> [allowed |-> FALSE,
                   remaining |-> CeilDiv(LOCKOUT_TIME - (t - la[ip].firstAttempt), 60000)],
          loginAttempts |-> la, purged |-> 0]
    ELSE [ret |-> [allowed |-> TRUE], loginAttempts |-> la, purged |-> 0]

checkRateLimit(la, ip, t) ==
    IF ip \notin DOMAIN la
    THEN [ret |-> [allowed |-> TRUE], loginAttempts |-> la, purged |-> 0]
    ELSE IF t - la[ip].firstAttempt > LOCKOUT_TIME
    THEN [ret |-> [allowed |-> TRUE], loginAttempts |-> MapDelete(la, ip),
          purged |-> la[ip].count]
    ELSE IF la[ip].count >= MAX_ATTEMPTS
    THEN [ret |-> [allowed |-> FALSE,
                   remaining |-> CeilDiv(LOCKOUT_TIME - (t - la[ip].firstAttempt), 60000)],
          loginAttempts |-> la, purged |-> 0]
    ELSE [ret |-> [allowed |-> TRUE], loginAttempts |-> la, purged |-> 0]

(* recordFailedAttempt(ip) at time t: the map it leaves *)

recordFailedAttempt_sliding(la, ip, t) ==
    IF ip \notin DOMAIN la
    THEN MapSet(la, ip, [count |-> 1, firstAttempt |-> t])
    ELSE [la EXCEPT ![ip] = [count |-> @.count + 1, firstAttempt |-> t]]

recordFailedAttempt(la, ip, t) ==
    IF ip \notin DOMAIN la
    THEN MapSet(la, ip, [count |-> 1, firstAttempt |-> t])
    ELSE [la EXCEPT ![ip].count = @ + 1]

----------------------------------------------------------------------------
(* Credential verification and replacement as written in the auth routes *)

isValid_plainOnly(a, password) == password = a.password

\* lines 180-188 and 226-232: isValid
isValid(a, password) ==
    IF HasSalt(a)
    THEN hashPassword(password, a.salt) = a.password
    ELSE password = a.password

\* which branch of `if (data.admin.salt)` a handler takes
Mode(a) == IF HasSalt(a) THEN "salted" ELSE "plain"

Salted_unhashed(password, salt) == [password |-> password, salt |-> salt]

\* data.admin.salt = salt; data.admin.password = hashPassword(password, salt)
Salted(password, salt) == [password |-> hashPassword(password, salt), salt |-> salt]

loginCredential_eager(a, password, salt) ==
    IF HasSalt(a) THEN a ELSE Salted(password, salt)

\* data.admin as login leaves it: migrated when it was plain and the password valid
loginCredential(a, password, salt) ==
    IF HasSalt(a) THEN a
    ELSE IF isValid(a, password) THEN Salted(password, salt)
    ELSE a

clearAttempts_keep(la, ip) == la

\* loginAttempts.delete(ip) on success
clearAttempts(la, ip) == MapDelete(la, ip)

changeCredential_plain(a, newPassword, salt) == [password |-> newPassword]

\* data.admin as a successful change-password leaves it
changeCredential(a, newPassword, salt) == Salted(newPassword, salt)

----------------------------------------------------------------------------
\* songs, lists and stats of the initialData written by ensureDataFile
InitialData ==
    [songs |-> << >>, lists |-> << >>,
     stats |-> [songViews |-> << >>, listViews |-> << >>]]

Init ==
    /\ loginAttempts = << >>
    /\ admin = [password |-> InitialPassword]
    /\ now = 0
    /\ res = [op |-> "none"]
    /\ adminPassword = InitialPassword
    /\ data = InitialData

\* wall-clock time passes between requests
Tick ==
    /\ \E t \in Instants : t > now /\ now' = t
    /\ UNCHANGED <<loginAttempts, admin, res, adminPassword, data>>

\* a direct call of the exported checkRateLimit
CheckRateLimit(ip) ==
    LET c == checkRateLimit(loginAttempts, ip, now) IN
    /\ loginAttempts' = c.loginAttempts
    /\ res' = [op |-> "checkRateLimit", ip |-> ip, ret |-> c.ret, purged |-> c.purged]
    /\ UNCHANGED <<admin, now, adminPassword, data>>

\* a direct call of the exported recordFailedAttempt
RecordFailedAttempt(ip) ==
    /\ ip \in DOMAIN loginAttempts => loginAttempts[ip].count < MaxCount
    /\ loginAttempts' = recordFailedAttempt(loginAttempts, ip, now)
    /\ res' = [op |-> "recordFailedAttempt", ip |-> ip]
    /\ UNCHANGED <<admin, now, adminPassword, data>>

\* the clock values a handler started at t may read later in the same request
HandlerInstants(t) == {t2 \in Instants : t <= t2 /\ t2 <= t + MaxHandlerMs}

\* POST /api/auth/login from ip with body {password}
Login(ip, password) ==
    LET c == checkRateLimit(loginAttempts, ip, now)
        req == [op |-> "login", ip |-> ip, password |-> password, purged |-> c.purged]
    IN
    (UNCHANGED data) /\
    IF ~c.ret.allowed
    THEN /\ res' = req @@ [status |-> 429, remaining |-> c.ret.remaining,
                           compared |-> FALSE, mode |-> "none"]
         /\ loginAttempts' = c.loginAttempts
         /\ UNCHANGED <<admin, now, adminPassword>>
    ELSE IF HasSalt(admin) /\ password = undefined
    THEN \* pbkdf2Sync throws a TypeError on an undefined password
         /\ res' = req @@ [status |-> 500, compared |-> FALSE, mode |-> Mode(admin)]
         /\ loginAttempts' = c.loginAttempts
         /\ UNCHANGED <<admin, now, adminPassword>>
    ELSE /\ \E salt \in Salts : admin' = loginCredential(admin, password, salt)
         /\ UNCHANGED adminPassword
         /\ IF isValid(admin, password)
            THEN /\ loginAttempts' = clearAttempts(c.loginAttempts, ip)
                 /\ res' = req @@ [status |-> 200, compared |-> TRUE, mode |-> Mode(admin)]
                 /\ \E t2 \in HandlerInstants(now) : now' = t2
            ELSE \* recordFailedAttempt reads Date.now() again
                 /\ \E t2 \in HandlerInstants(now) :
                        /\ now' = t2
                        /\ loginAttempts' = recordFailedAttempt(c.loginAttempts, ip, t2)
                 /\ res' = req @@ [status |-> 401, compared |-> TRUE, mode |-> Mode(admin)]

\* POST /api/auth/change-password with body {currentPassword, newPassword}
ChangePassword(currentPassword, newPassword) ==
    LET req == [op |-> "change-password", currentPassword |-> currentPassword,
                newPassword |-> newPassword]
    IN
    (UNCHANGED data) /\
    IF ~Truthy(currentPassword) \/ ~Truthy(newPassword)
    THEN /\ res' = req @@ [status |-> 400, mode |-> "none"]
         /\ UNCHANGED <<loginAttempts, admin, now, adminPassword>>
    ELSE IF Len(newPassword) < MinNewPasswordLength
    THEN /\ res' = req @@ [status |-> 400, mode |-> "none"]
         /\ UNCHANGED <<loginAttempts, admin, now, adminPassword>>
    ELSE IF ~isValid(admin, currentPassword)
    THEN /\ res' = req @@ [status |-> 401, mode |-> Mode(admin)]
         /\ UNCHANGED <<loginAttempts, admin, now, adminPassword>>
    ELSE /\ \E salt \in Salts : admin' = changeCredential(admin, newPassword, salt)
         /\ adminPassword' = newPassword
         /\ res' = req @@ [status |-> 200, mode |-> Mode(admin)]
         /\ UNCHANGED <<loginAttempts, now>>

Next ==
    \/ Tick
    \/ \E ip \in Ips : CheckRateLimit(ip)
    \/ \E ip \in Ips : RecordFailedAttempt(ip)
    \/ \E ip \in Ips, password \in BodyValues : Login(ip, password)
    \/ \E currentPassword \in BodyValues, newPassword \in NewPasswordValues :
           ChangePassword(currentPassword, newPassword)

Spec == Init /\ [][Next]_vars

----------------------------------------------------------------------------
(* Predicates on the attempt window of an identifier at the current time *)

HasWindow(ip) == ip \in DOMAIN loginAttempts

Elapsed(ip) == now - loginAttempts[ip].firstAttempt

\* the window exists and has not expired (boundary included)
InWindow(ip) == HasWindow(ip) /\ Elapsed(ip) <= LOCKOUT_TIME

Expired(ip) == HasWindow(ip) /\ Elapsed(ip) > LOCKOUT_TIME

Locked(ip) == InWindow(ip) /\ loginAttempts[ip].count >= MAX_ATTEMPTS

\* the attempt window of ip is the same, or absent, in both states of a step
WindowUnchanged(ip) ==
    /\ (ip \in DOMAIN loginAttempts') = (ip \in DOMAIN loginAttempts)
    /\ ip \in DOMAIN loginAttempts => loginAttempts'[ip] = loginAttempts[ip]

LoginSucceeded == res.op = "login" /\ res.status = 200

----------------------------------------------------------------------------
(* C1: whenever the window of an identifier holds count >= MAX_ATTEMPTS and
   has not expired (now - firstAttempt <= LOCKOUT_TIME, boundary included),
   checkRateLimit returns allowed = false with remaining > 0, remaining being
   ceil((LOCKOUT_TIME - (now - firstAttempt)) / 60000). *)
C1_LockedCheckHasPositiveRemaining ==
    \A ip \in Ips :
        Locked(ip) =>
            LET r == checkRateLimit(loginAttempts, ip, now).ret IN
            /\ r.allowed = FALSE
            /\ r.remaining > 0
            /\ (r.remaining - 1) * 60000 < LOCKOUT_TIME - Elapsed(ip)
            /\ LOCKOUT_TIME - Elapsed(ip) <= r.remaining * 60000

(* A step is a login, a direct checkRateLimit or a direct recordFailedAttempt
   exactly when it is the step of the request recorded in res' *)

IsLogin == res'.op = "login" /\ Login(res'.ip, res'.password)

IsCheckRateLimit == res'.op = "checkRateLimit" /\ CheckRateLimit(res'.ip)

IsRecordFailedAttempt == res'.op = "recordFailedAttempt" /\ RecordFailedAttempt(res'.ip)

IsChangePassword ==
    res'.op = "change-password" /\ ChangePassword(res'.currentPassword, res'.newPassword)

(* C2: while an identifier is locked, every login from it, the correct
   password included, is answered 429, the password is not compared, no
   failure is recorded, and neither the attempt windows nor the stored
   credential change. *)
C2_LockedLoginIs429 ==
    [][(res'.op = "login" /\ Locked(res'.ip) /\ IsLogin) =>
          /\ res'.status = 429
          /\ res'.status # 401
          /\ res'.compared = FALSE
          /\ loginAttempts' = loginAttempts
          /\ admin' = admin]_vars

C2_Witness ==
    /\ res.op = "login"
    /\ res.status = 429
    /\ res.password = adminPassword
    /\ Locked(res.ip)

(* C3: immediately after a login answered with success the identifier has no
   attempt window, whatever its count was, and a checkRateLimit for it
   returns allowed = true. *)
C3_SuccessClearsWindow ==
    [][(res'.op = "login" /\ res'.status = 200 /\ IsLogin) =>
          /\ res'.ip \notin DOMAIN loginAttempts'
          /\ checkRateLimit(loginAttempts', res'.ip, now').ret.allowed]_vars

C3_Witness ==
    /\ LoginSucceeded
    /\ ~HasWindow(res.ip)
    /\ \E other \in Ips \ {res.ip} : HasWindow(other)

(* C4: recordFailedAttempt, checkRateLimit and login for identifier A leave
   the attempt window of every identifier B # A as it was (not created, not
   changed, not deleted); an identifier without a window is allowed whatever
   the other identifiers have accumulated. *)
C4_WindowsIsolated ==
    /\ [][(IsCheckRateLimit \/ IsRecordFailedAttempt \/ IsLogin) =>
            \A b \in Ips \ {res'.ip} : WindowUnchanged(b)]_vars
    /\ [](\A b \in Ips :
            ~HasWindow(b) => checkRateLimit(loginAttempts, b, now).ret.allowed)

C4_Witness ==
    /\ res.op = "checkRateLimit"
    /\ res.ret.allowed
    /\ ~HasWindow(res.ip)
    /\ \E a \in Ips \ {res.ip} : Locked(a)

(* C5: the first checkRateLimit made once now - firstAttempt > LOCKOUT_TIME
   deletes the window and allows the request (a login that makes that check
   is not answered 429 and leaves either no window or a new one started at
   the time of its failure); and no step taken while the window has not
   expired changes its firstAttempt. *)
C5_LockoutEndsAfterLockoutTime ==
    [][/\ (res'.op = "checkRateLimit" /\ Expired(res'.ip) /\ IsCheckRateLimit) =>
             /\ res'.ip \notin DOMAIN loginAttempts'
             /\ res'.ret.allowed
       /\ (res'.op = "login" /\ Expired(res'.ip) /\ IsLogin) =>
             /\ res'.status # 429
             /\ res'.ip \in DOMAIN loginAttempts' =>
                    loginAttempts'[res'.ip] = [count |-> 1, firstAttempt |-> now']
       /\ \A ip \in Ips :
             (InWindow(ip) /\ ip \in DOMAIN loginAttempts') =>
                 loginAttempts'[ip].firstAttempt = loginAttempts[ip].firstAttempt]_vars

C5_Witness ==
    /\ res.op = "checkRateLimit"
    /\ res.purged >= MAX_ATTEMPTS
    /\ res.ret.allowed
    /\ ~HasWindow(res.ip)

(* C6 as stated: a login with the correct password against a salt-less
   credential succeeds and replaces the credential by
   {password: hash(password, salt), salt} with a populated salt; a login with
   the same password against the migrated credential succeeds. *)
C6_PlainLoginMigrates ==
    [][/\ (res'.op = "login" /\ ~HasSalt(admin) /\ res'.password = admin.password
             /\ IsLogin) =>
             /\ res'.status = 200
             /\ HasSalt(admin')
             /\ admin'.salt \in Salts
             /\ admin' = [password |-> hashPassword(res'.password, admin'.salt),
                          salt |-> admin'.salt]
       /\ (res'.op = "login" /\ HasSalt(admin)
             /\ admin.password = hashPassword(res'.password, admin.salt) /\ IsLogin) =>
             res'.status = 200]_vars

(* C6 amended: the same, for a login from an identifier that is not locked. *)
C6_UnlockedPlainLoginMigrates ==
    [][/\ (res'.op = "login" /\ ~Locked(res'.ip) /\ ~HasSalt(admin)
             /\ res'.password = admin.password /\ IsLogin) =>
             /\ res'.status = 200
             /\ HasSalt(admin')
             /\ admin'.salt \in Salts
             /\ admin' = [password |-> hashPassword(res'.password, admin'.salt),
                          salt |-> admin'.salt]
       /\ (res'.op = "login" /\ ~Locked(res'.ip) /\ HasSalt(admin)
             /\ admin.password = hashPassword(res'.password, admin.salt) /\ IsLogin) =>
             res'.status = 200]_vars

C6_Witness ==
    /\ LoginSucceeded
    /\ res.mode = "plain"
    /\ HasSalt(admin)
    /\ admin.password = hashPassword(res.password, admin.salt)

(* C7: a login from an identifier that is not locked succeeds iff its password
   is the current admin password (the initial one, or the newPassword of the
   last successful change-password), in plain and in salted mode alike; in
   every state the stored credential verifies exactly that password. *)
C7_LoginSucceedsIffCurrentPassword ==
    /\ [][(res'.op = "login" /\ ~Locked(res'.ip) /\ IsLogin) =>
            ((res'.status = 200) <=> (res'.password = adminPassword))]_vars
    /\ [](\A password \in Passwords :
            isValid(admin, password) <=> (password = adminPassword))

C7_Witness ==
    /\ LoginSucceeded
    /\ res.mode = "salted"
    /\ adminPassword # InitialPassword
    /\ res.password = adminPassword

(* C8: a login that does not succeed (wrong password in plain or salted mode,
   rate-limited, or failed) leaves the stored credential unchanged. *)
C8_FailedLoginKeepsCredential ==
    [][(res'.op = "login" /\ res'.status # 200 /\ IsLogin) => admin' = admin]_vars

C8_Witness ==
    /\ res.op = "login"
    /\ res.status = 401
    /\ res.mode = "plain"
    /\ ~HasSalt(admin)
    /\ admin.password = InitialPassword

(* C9: once the stored credential has a salt, it has one in every later
   state. *)
C9_SaltNeverRemoved ==
    [][HasSalt(admin) => HasSalt(admin')]_vars

C9_Witness ==
    /\ res.op = "change-password"
    /\ res.status = 200
    /\ res.mode = "salted"
    /\ HasSalt(admin)

(* C10 as stated: a step that changes a salt-less credential into a salted one
   is a successful login. *)
C10_OnlyLoginSalts ==
    [][(~HasSalt(admin) /\ HasSalt(admin')) => (IsLogin /\ res'.status = 200)]_vars

(* C10 amended: a step that changes a salt-less credential into a salted one
   is a successful login or a successful change-password. *)
C10_OnlyLoginOrChangePasswordSalts ==
    [][(~HasSalt(admin) /\ HasSalt(admin')) =>
          \/ IsLogin /\ res'.status = 200
          \/ IsChangePassword /\ res'.status = 200]_vars

C10_Witness ==
    /\ res.op = "change-password"
    /\ res.status = 200
    /\ res.mode = "plain"
    /\ HasSalt(admin)
    /\ admin.password = hashPassword(res.newPassword, admin.salt)

----------------------------------------------------------------------------
(* JavaScript strings are sequences of one-character strings *)

\* characters matched by \s
IsSpace(c) == c \in {" ", "\n", "\t"}

\* characters not matched by . in a regular expression without the s flag
IsLineTerminator(c) == c \in {"\n", "\r"}

UpperToLower == [A |-> "a", B |-> "b", E |-> "e", H |-> "h", N |-> "n", T |-> "t"]

\* String.prototype.toLowerCase
toLowerCase(s) ==
    [i \in 1..Len(s) |-> IF s[i] \in DOMAIN UpperToLower THEN UpperToLower[s[i]] ELSE s[i]]

\* String.prototype.includes
includes(s, sub) ==
    \E i \in 0..(Len(s) - Len(sub)) : SubSeq(s, i + 1, i + Len(sub)) = sub

\* String.prototype.startsWith
startsWith(s, prefix) ==
    Len(prefix) <= Len(s) /\ SubSeq(s, 1, Len(prefix)) = prefix

\* the longest prefix of s made of whitespace
RECURSIVE SpaceRun(_)
SpaceRun(s) ==
    IF s = << >> \/ ~IsSpace(Head(s)) THEN 0 ELSE 1 + SpaceRun(Tail(s))

\* String.prototype.trim
RECURSIVE trim(_)
trim(s) ==
    IF s = << >> THEN s
    ELSE IF IsSpace(Head(s)) THEN trim(Tail(s))
    ELSE IF IsSpace(s[Len(s)]) THEN trim(SubSeq(s, 1, Len(s) - 1))
    ELSE s

\* text.replace(/\s+/g, ' ')
RECURSIVE collapseSpaces(_)
collapseSpaces(s) ==
    IF s = << >> THEN s
    ELSE IF IsSpace(Head(s))
    THEN <<" ">> \o collapseSpaces(SubSeq(s, SpaceRun(s) + 1, Len(s)))
    ELSE <<Head(s)>> \o collapseSpaces(Tail(s))

normalizeWhitespace_keepRuns(text) == trim(text)

normalizeWhitespace(text) == trim(collapseSpaces(text))

\* s.split(' ').filter(w => w.length > 0)
RECURSIVE words(_)
words(s) ==
    IF s = << >> THEN << >>
    ELSE IF Head(s) = " " THEN words(Tail(s))
    ELSE LET n == CHOOSE k \in 1..Len(s) :
                     /\ \A i \in 1..k : s[i] # " "
                     /\ k = Len(s) \/ s[k + 1] = " "
         IN <<SubSeq(s, 1, n)>> \o words(SubSeq(s, n + 1, Len(s)))

Min3(x, y, z) ==
    IF x <= y /\ x <= z THEN x ELSE IF y <= z THEN y ELSE z

Max2(x, y) == IF x >= y THEN x ELSE y

Abs(x) == IF x < 0 THEN -x ELSE x

RECURSIVE levenshteinRow_noDeletion(_, _, _, _)
levenshteinRow_noDeletion(prev, a, bc, row) ==
    LET j == Len(row)
    IN IF j > Len(a) THEN row
       ELSE levenshteinRow_noDeletion(prev, a, bc,
                Append(row,
                       IF bc = a[j] THEN prev[j]
                       ELSE Min3(prev[j] + 1, row[j] + 1, row[j] + 1)))

\* matrix[i] of levenshteinDistance, i >= 1, from prev = matrix[i - 1] and the
\* cells row = matrix[i][0..j-1] already filled: rows are sequences whose
\* element j + 1 is matrix[i][j]
RECURSIVE levenshteinRow(_, _, _, _)
levenshteinRow(prev, a, bc, row) ==
    LET j == Len(row)
    IN IF j > Len(a) THEN row
       ELSE levenshteinRow(prev, a, bc,
                Append(row,
                       IF bc = a[j] THEN prev[j]
                       ELSE Min3(prev[j] + 1, row[j] + 1, prev[j + 1] + 1)))

RECURSIVE levenshteinMatrix(_, _, _, _)
levenshteinMatrix(a, b, prev, i) ==
    IF i > Len(b) THEN prev
    ELSE levenshteinMatrix(a, b, levenshteinRow(prev, a, b[i], <<i>>), i + 1)

levenshteinDistance(a, b) ==
    levenshteinMatrix(a, b, [j \in 1..(Len(a) + 1) |-> j - 1], 1)[Len(a) + 1]

----------------------------------------------------------------------------
(* Specifications of the exported pure functions: the arguments are drawn in
   the initial state and one step applies the function; the server is at
   rest *)

AtRest ==
    /\ loginAttempts = << >>
    /\ admin = [password |-> InitialPassword]
    /\ now = 0
    /\ adminPassword = InitialPassword
    /\ data = InitialData

StaysAtRest == UNCHANGED <<loginAttempts, admin, now, adminPassword, data>>

\* the strings of at most n characters of chars
StringsUpTo(chars, n) == UNION {[1..k -> chars] : k \in 0..n}

----------------------------------------------------------------------------
(* levenshteinDistance *)

MaxLevLen == 3

LevChars == {"a", "b"}

LevStrings == StringsUpTo(LevChars, MaxLevLen)

InitLev ==
    /\ AtRest
    /\ \E a \in LevStrings, b \in LevStrings : res = [op |-> "input", a |-> a, b |-> b]

CallLevenshteinDistance ==
    /\ res.op = "input"
    /\ res' = [op |-> "levenshteinDistance", a |-> res.a, b |-> res.b,
               ret |-> levenshteinDistance(res.a, res.b)]
    /\ StaysAtRest

SpecLev == InitLev /\ [][CallLevenshteinDistance]_vars

\* the strings one insertion, deletion or substitution away from s
SingleEdits(s, chars, maxLen) ==
    {SubSeq(s, 1, i - 1) \o SubSeq(s, i + 1, Len(s)) : i \in 1..Len(s)}
    \cup {[s EXCEPT ![i] = c] : i \in 1..Len(s), c \in chars}
    \cup (IF Len(s) < maxLen
          THEN {SubSeq(s, 1, i) \o <<c>> \o SubSeq(s, i + 1, Len(s)) :
                    i \in 0..Len(s), c \in chars}
          ELSE {})

\* the strings at most k single edits away from a string of S
RECURSIVE WithinEdits(_, _, _, _)
WithinEdits(S, k, chars, maxLen) ==
    IF k = 0 THEN S
    ELSE LET R == WithinEdits(S, k - 1, chars, maxLen)
         IN R \cup UNION {SingleEdits(s, chars, maxLen) : s \in R}

\* the minimum number of single edits turning a into b
EditDistance(a, b) ==
    LET m == Max2(Len(a), Len(b))
    IN CHOOSE k \in 0..m :
           /\ b \in WithinEdits({a}, k, LevChars, m)
           /\ k = 0 \/ b \notin WithinEdits({a}, k - 1, LevChars, m)

(* C16: levenshteinDistance(a, b) is the minimum number of single-character
   insertions, deletions and substitutions turning a into b; it is 0 for
   a = b, symmetric, and the length of the other argument when one is
   empty. *)
C16_LevenshteinIsEditDistance ==
    res.op = "levenshteinDistance" =>
        /\ res.ret = EditDistance(res.a, res.b)
        /\ res.a = res.b => res.ret = 0
        /\ res.ret = levenshteinDistance(res.b, res.a)
        /\ res.a = << >> => res.ret = Len(res.b)
        /\ res.b = << >> => res.ret = Len(res.a)

C16_Witness ==
    /\ res.op = "levenshteinDistance"
    /\ res.a = <<"a", "b", "a">>
    /\ res.b = <<"b", "a", "b">>
    /\ res.ret = 2

----------------------------------------------------------------------------
(* parseSearchQuery *)

MaxQueryLen == 4

DoubleQuote == "\""

QueryChars == {DoubleQuote, "a", "\n"}

RawQueries == StringsUpTo(QueryChars, MaxQueryLen)

\* query.match(/^"(.+)"$/): the dot matches no line terminator and, without
\* the m flag, $ matches at the end of the string only
matchQuoted(query) ==
    /\ Len(query) >= 3
    /\ query[1] = DoubleQuote
    /\ query[Len(query)] = DoubleQuote
    /\ \A i \in 2..(Len(query) - 1) : ~IsLineTerminator(query[i])

parseSearchQuery(query) ==
    IF matchQuoted(query)
    THEN [type |-> "exact", term |-> SubSeq(query, 2, Len(query) - 1)]
    ELSE [type |-> "fuzzy", term |-> query]

InitParse ==
    /\ AtRest
    /\ \E query \in RawQueries : res = [op |-> "input", query |-> query]

CallParseSearchQuery ==
    /\ res.op = "input"
    /\ res' = [op |-> "parseSearchQuery", query |-> res.query,
               ret |-> parseSearchQuery(res.query)]
    /\ StaysAtRest

SpecParse == InitParse /\ [][CallParseSearchQuery]_vars

\* the string starts and ends with a double quote and the text between those
\* two quotes is non-empty
WrappedInQuotes(query) ==
    /\ Len(query) >= 2
    /\ query[1] = DoubleQuote
    /\ query[Len(query)] = DoubleQuote
    /\ SubSeq(query, 2, Len(query) - 1) # << >>

(* C11: parseSearchQuery returns {exact, inner} iff the query starts and ends
   with a double quote with a non-empty text between them, inner being that
   text; in every other case it returns {fuzzy, the query unchanged}. *)
C11_ExactIffWrappedInQuotes ==
    res.op = "parseSearchQuery" =>
        IF WrappedInQuotes(res.query)
        THEN res.ret = [type |-> "exact",
                        term |-> SubSeq(res.query, 2, Len(res.query) - 1)]
        ELSE res.ret = [type |-> "fuzzy", term |-> res.query]

----------------------------------------------------------------------------
(* librarySortKey *)

MaxTitleLen == 5

TitleChars == {"a", "A", "n", "t", "h", "e", " "}

Titles == StringsUpTo(TitleChars, MaxTitleLen)

\* the alternatives of /^(the|a|an)\s+/i in the order the regular expression
\* tries them
articles == <<(<<"t", "h", "e">>), (<<"a">>), (<<"a", "n">>)>>

\* the alternative matches at the start of title, under the i flag, with at
\* least one whitespace character after it
articleMatches_caseSensitive(title, article) ==
    /\ startsWith(title, article)
    /\ Len(title) > Len(article)
    /\ IsSpace(title[Len(article) + 1])

articleMatches(title, article) ==
    /\ startsWith(toLowerCase(title), article)
    /\ Len(title) > Len(article)
    /\ IsSpace(title[Len(article) + 1])

\* title.replace(articles, ''): the first alternative that matches is removed
\* together with the whole whitespace run after it
RECURSIVE replaceArticle(_, _)
replaceArticle(title, k) ==
    IF k > Len(articles) THEN title
    ELSE IF articleMatches(title, articles[k])
    THEN LET rest == SubSeq(title, Len(articles[k]) + 1, Len(title))
         IN SubSeq(rest, SpaceRun(rest) + 1, Len(rest))
    ELSE replaceArticle(title, k + 1)

librarySortKey(title) == toLowerCase(replaceArticle(title, 1))

InitSortKey ==
    /\ AtRest
    /\ \E title \in Titles : res = [op |-> "input", title |-> title]

CallLibrarySortKey ==
    /\ res.op = "input"
    /\ res' = [op |-> "librarySortKey", title |-> res.title,
               ret |-> librarySortKey(res.title)]
    /\ StaysAtRest

SpecSortKey == InitSortKey /\ [][CallLibrarySortKey]_vars

\* the lengths n such that the first n characters of title are an article in
\* any letter case and character n + 1 is whitespace
LeadingArticles(title) ==
    {n \in 1..(Len(title) - 1) :
        /\ SubSeq(toLowerCase(title), 1, n) \in {articles[k] : k \in DOMAIN articles}
        /\ IsSpace(title[n + 1])}

\* the positions where the whitespace run that starts at position from ends
EndOfSpaces(title, from) ==
    {m \in from..Len(title) :
        /\ \A i \in from..m : IsSpace(title[i])
        /\ m = Len(title) \/ ~IsSpace(title[m + 1])}

(* C17: librarySortKey(title) is the lowercased title with exactly one leading
   article token (the, a or an in any letter case, with the whitespace
   after it) removed when the title starts with one; whatever follows the
   token, a second article included, is kept, and so is an article that is not
   at the start or not followed by whitespace. *)
C17_SortKeyStripsOneLeadingArticle ==
    res.op = "librarySortKey" =>
        LET title == res.title
            low == toLowerCase(title)
        IN IF LeadingArticles(title) = {}
           THEN res.ret = low
           ELSE \A n \in LeadingArticles(title) :
                    \A m \in EndOfSpaces(title, n + 1) :
                        res.ret = SubSeq(low, m + 1, Len(low))

C17_Witness ==
    /\ res.op = "librarySortKey"
    /\ res.title = <<"A", " ", "a", "n", " ">>
    /\ res.ret = <<"a", "n", " ">>

----------------------------------------------------------------------------
(* fuzzyMatch and exactMatch *)

MaxFuzzyLen == 4

FuzzyChars == {"a", "b", " "}

\* a word long enough for floor(length * 0.15) to exceed 1, with two and
\* with three typos
LongWord == [i \in 1..14 |-> "a"]

LongWordTwoTypos == [LongWord EXCEPT ![3] = "b", ![9] = "b"]

LongWordThreeTypos == [LongWordTwoTypos EXCEPT ![12] = "b"]

\* a word long enough for floor(length * 0.15) to exceed 2, and the same word
\* with three more characters in the middle
LongerWord == [i \in 1..20 |-> "a"]

LongerWordThreeMore == SubSeq(LongerWord, 1, 10) \o <<"b", "b", "b">> \o SubSeq(LongerWord, 11, 20)

\* upper case and whitespace other than single spaces
MixedCaseText == <<"A", " ", "\n", "B", "a", "\t">>

FuzzyStrings ==
    StringsUpTo(FuzzyChars, MaxFuzzyLen)
    \cup {LongWord, LongWordTwoTypos, LongWordThreeTypos, LongerWord,
          LongerWordThreeMore, MixedCaseText}

\* Math.max(1, Math.floor(queryWord.length * 0.15))
maxDistance(queryWord) == Max2(1, (Len(queryWord) * 15) \div 100)

\* the callback of textWords.some
wordMatches_noContains(textWord, queryWord) ==
    IF Abs(Len(textWord) - Len(queryWord)) <= 2
    THEN levenshteinDistance(queryWord, textWord) <= maxDistance(queryWord)
    ELSE FALSE

wordMatches(textWord, queryWord) ==
    IF includes(textWord, queryWord) THEN TRUE
    ELSE IF Abs(Len(textWord) - Len(queryWord)) <= 2
    THEN levenshteinDistance(queryWord, textWord) <= maxDistance(queryWord)
    ELSE FALSE

fuzzyMatch(text, query) ==
    LET normalizedText == toLowerCase(normalizeWhitespace(text))
        normalizedQuery == toLowerCase(normalizeWhitespace(query))
        queryWords == words(normalizedQuery)
        textWords == words(normalizedText)
    IN IF includes(normalizedText, normalizedQuery) THEN TRUE
       ELSE IF Len(normalizedQuery) <= 2 THEN FALSE
       ELSE \A i \in DOMAIN queryWords :
                \E j \in DOMAIN textWords : wordMatches(textWords[j], queryWords[i])

exactMatch(text, query) ==
    LET normalizedText == toLowerCase(normalizeWhitespace(text))
        normalizedQuery == toLowerCase(normalizeWhitespace(query))
    IN includes(normalizedText, normalizedQuery)

InitFuzzy ==
    /\ AtRest
    /\ \E text \in FuzzyStrings, query \in FuzzyStrings :
           res = [op |-> "input", text |-> text, query |-> query]

CallFuzzyMatch ==
    /\ res.op = "input"
    /\ res' = [op |-> "fuzzyMatch", text |-> res.text, query |-> res.query,
               ret |-> fuzzyMatch(res.text, res.query)]
    /\ StaysAtRest

SpecFuzzy == InitFuzzy /\ [][CallFuzzyMatch]_vars

\* the space-separated words of s: its maximal substrings without a space
WordSet(s) ==
    {SubSeq(s, i, j) : <<i, j>> \in
        {p \in (1..Len(s)) \X (1..Len(s)) :
            /\ p[1] <= p[2]
            /\ \A k \in p[1]..p[2] : s[k] # " "
            /\ p[1] = 1 \/ s[p[1] - 1] = " "
            /\ p[2] = Len(s) \/ s[p[2] + 1] = " "}}

(* C15: fuzzyMatch(text, term) is true iff the normalized text contains the
   normalized term as a substring, or the normalized term has more than 2
   characters and every space-separated query word q has a text word t such
   that t contains q, or |len(t) - len(q)| <= 2 and
   levenshtein(q, t) <= max(1, floor(len(q) * 0.15)). *)
C15_FuzzyMatchCharacterised ==
    res.op = "fuzzyMatch" =>
        LET nText == toLowerCase(normalizeWhitespace(res.text))
            nTerm == toLowerCase(normalizeWhitespace(res.query))
            bound(q) == IF (Len(q) * 15) \div 100 > 1 THEN (Len(q) * 15) \div 100 ELSE 1
        IN res.ret <=>
             \/ includes(nText, nTerm)
             \/ /\ Len(nTerm) > 2
                /\ \A q \in WordSet(nTerm) : \E t \in WordSet(nText) :
                      \/ includes(t, q)
                      \/ /\ Len(t) - Len(q) \in -2..2
                         /\ levenshteinDistance(q, t) <= bound(q)

\* a 14-character word is found with two typos (floor(14 * 0.15) = 2)
C15_Witness ==
    /\ res.op = "fuzzyMatch"
    /\ res.query = LongWord
    /\ res.text = LongWordTwoTypos
    /\ res.ret = TRUE

----------------------------------------------------------------------------
(* getSiteByPath (config/site-loader.js) *)

MaxSites == 3

\* base paths as loadSiteConfigs leaves them: '' for the root site, otherwise
\* a leading slash and no trailing slash
BasePaths ==
    {<< >>,
     <<"/", "a">>,
     <<"/", "a", "/", "b">>,
     <<"/", "b">>}

RequestPaths ==
    {<<"/">>,
     <<"/", "a">>,
     <<"/", "a", "/">>,
     <<"/", "a", "b">>,
     <<"/", "a", "/", "b">>,
     <<"/", "a", "/", "b", "/", "a">>,
     <<"/", "b">>,
     <<"/", "b", "/", "a">>,
     <<"/", "b", "a", "/", "a">>}

\* the site maps of n sites, in insertion order, keyed by id
SiteMaps(n) ==
    {[i \in 1..n |-> [id |-> i, basePath |-> f[i]]] : f \in [1..n -> BasePaths]}

\* the test of the first loop
matchesBasePath_noSlash(config, requestPath) ==
    /\ config.basePath # << >>
    /\ startsWith(requestPath, config.basePath)

matchesBasePath(config, requestPath) ==
    \/ config.basePath # << >> /\ startsWith(requestPath, config.basePath \o <<"/">>)
    \/ config.basePath # << >> /\ requestPath = config.basePath

\* the position a for-of loop over the map reaches first among positions
firstOf(positions) == CHOOSE k \in positions : \A j \in positions : k <= j

getSiteByPath(sites, requestPath) ==
    LET byPrefix == {k \in DOMAIN sites : matchesBasePath(sites[k], requestPath)}
        root == {k \in DOMAIN sites : sites[k].basePath = << >>}
    IN IF byPrefix # {} THEN sites[firstOf(byPrefix)]
       ELSE IF root # {} THEN sites[firstOf(root)]
       ELSE IF sites = << >> THEN undefined
       ELSE sites[1]

InitSite ==
    /\ AtRest
    /\ \E n \in 0..MaxSites : \E sites \in SiteMaps(n) : \E requestPath \in RequestPaths :
           res = [op |-> "input", sites |-> sites, requestPath |-> requestPath]

CallGetSiteByPath ==
    /\ res.op = "input"
    /\ res' = [op |-> "getSiteByPath", sites |-> res.sites,
               requestPath |-> res.requestPath,
               ret |-> getSiteByPath(res.sites, res.requestPath)]
    /\ StaysAtRest

SpecSite == InitSite /\ [][CallGetSiteByPath]_vars

\* the request path equals B or starts with B followed by '/'
UnderBasePath(requestPath, B) ==
    \/ requestPath = B
    \/ /\ Len(requestPath) > Len(B)
       /\ SubSeq(requestPath, 1, Len(B) + 1) = B \o <<"/">>

(* C19: when a site with non-empty basePath B is configured such that the
   request path equals B or starts with B followed by '/', getSiteByPath
   returns such a site; when no such site matches it returns the root site
   (basePath '') if one is configured, and otherwise the first configured
   site. A site with non-empty basePath that the path is not under is
   returned in that last case only. *)
C19_SiteByPrefixElseRootElseFirst ==
    res.op = "getSiteByPath" /\ res.sites # << >> =>
        LET sites == res.sites
            matching == {k \in DOMAIN sites :
                            /\ sites[k].basePath # << >>
                            /\ UnderBasePath(res.requestPath, sites[k].basePath)}
            roots == {k \in DOMAIN sites : sites[k].basePath = << >>}
        IN /\ \E k \in DOMAIN sites : res.ret = sites[k]
           /\ matching # {} => \E k \in matching : res.ret = sites[k]
           /\ matching = {} /\ roots # {} => res.ret.basePath = << >>
           /\ matching = {} /\ roots = {} => res.ret = sites[1]
           /\ res.ret.basePath # << >> =>
                  \/ UnderBasePath(res.requestPath, res.ret.basePath)
                  \/ matching = {} /\ roots = {}

\* '/ab' is not under '/a': the root site configured after it is returned
C19_Witness ==
    /\ res.op = "getSiteByPath"
    /\ res.requestPath = <<"/", "a", "b">>
    /\ Len(res.sites) = 2
    /\ res.sites[1].basePath = <<"/", "a">>
    /\ res.sites[2].basePath = << >>
    /\ res.ret = res.sites[2]

----------------------------------------------------------------------------
(* sortSongs, GET /api/songs and GET /api/search *)

MaxSongs == 3

\* String.prototype.localeCompare on the characters of the sort keys below:
\* the collation order of space and the lowercase letters
Collation == <<" ", "a", "b", "c", "d", "e", "h", "n", "t">>

rank(c) == CHOOSE k \in DOMAIN Collation : Collation[k] = c

RECURSIVE localeCompare(_, _)
localeCompare(a, b) ==
    IF a = << >> /\ b = << >> THEN 0
    ELSE IF a = << >> THEN -1
    ELSE IF b = << >> THEN 1
    ELSE IF rank(Head(a)) < rank(Head(b)) THEN -1
    ELSE IF rank(Head(a)) > rank(Head(b)) THEN 1
    ELSE localeCompare(Tail(a), Tail(b))

\* the comparator of sortSongs
compareSongs_rawTitle(a, b) == localeCompare(toLowerCase(a.title), toLowerCase(b.title))

compareSongs(a, b) == localeCompare(librarySortKey(a.title), librarySortKey(b.title))

\* Array.prototype.sort is stable: song goes after the songs that do not
\* compare greater
RECURSIVE insertSong(_, _)
insertSong(sorted, song) ==
    IF sorted = << >> THEN <<song>>
    ELSE IF compareSongs(sorted[Len(sorted)], song) <= 0 THEN Append(sorted, song)
    ELSE Append(insertSong(SubSeq(sorted, 1, Len(sorted) - 1), song), sorted[Len(sorted)])

RECURSIVE sort(_)
sort(songs) ==
    IF songs = << >> THEN << >>
    ELSE insertSong(sort(SubSeq(songs, 1, Len(songs) - 1)), songs[Len(songs)])

\* [...songs].sort(...): ret is the sorted copy, songs the argument array as
\* the call leaves it
sortSongs(songs) == [ret |-> sort(songs), songs |-> songs]

\* the title and lyrics of songs as POST /api/songs stores them (trimmed)
SongBodies ==
    {[title |-> <<"T", "h", "e", " ", "b">>, lyrics |-> <<"a", "b", " ", "a">>],
     [title |-> <<"c">>, lyrics |-> <<"b">>],
     [title |-> <<"A", " ", "d">>, lyrics |-> <<"d", "\n", "d">>],
     [title |-> <<"b">>, lyrics |-> <<"c">>]}

\* song ids are opaque and unique: the song stored k-th has id k
StoredSongs ==
    UNION {{[k \in 1..n |-> [id |-> k, title |-> f[k].title, lyrics |-> f[k].lyrics]] :
                f \in [1..n -> SongBodies]} : n \in 0..MaxSongs}

\* the lists stored by POST and PUT /api/lists: songIds come from the request
\* body unchecked, useCustomOrder exists once a PUT has set it
StoredLists ==
    {<< >>,
     <<[id |-> "l1", name |-> "one", songIds |-> <<1>>]>>,
     <<[id |-> "l1", name |-> "one", songIds |-> <<2, 1>>, useCustomOrder |-> TRUE]>>,
     <<[id |-> "l1", name |-> "one", songIds |-> << >>, useCustomOrder |-> FALSE]>>,
     <<[id |-> "l1", name |-> "one", songIds |-> <<3, 9>>],
       [id |-> "l2", name |-> "two", songIds |-> <<1, 2>>, useCustomOrder |-> TRUE]>>}

\* req.query of GET /api/search: a parameter that is not sent is not a field
SearchTerms ==
    {<< >>,
     <<"b">>,
     <<"\"", "b", "\"">>,
     <<"a", "b", "b">>,
     <<"\"", "a", "b", "b", "\"">>,
     <<"\"", "d", " ", "d", "\"">>,
     <<"\"", "a", "\n", "b", "\"">>}

ListIdValues == {"", "l1", "l2", "l9"}

SearchQueries ==
    {<< >>}
    \cup {[q |-> q] : q \in SearchTerms}
    \cup {[listId |-> listId] : listId \in ListIdValues}
    \cup {[q |-> q, listId |-> listId] : q \in SearchTerms, listId \in ListIdValues}

Has(query, name) == name \in DOMAIN query

Range(seq) == {seq[k] : k \in DOMAIN seq}

\* data.lists.find(l => l.id === listId)
findList(lists, listId) ==
    IF \E k \in DOMAIN lists : lists[k].id = listId
    THEN lists[firstOf({k \in DOMAIN lists : lists[k].id = listId})]
    ELSE undefined

\* the songs after the listId step of GET /api/search
filterByList(songs, lists, query) ==
    IF Has(query, "listId") /\ query.listId # ""
    THEN IF \E k \in DOMAIN lists : lists[k].id = query.listId
         THEN LET list == findList(lists, query.listId)
                  inList(s) == s.id \in Range(list.songIds)
              IN SelectSeq(songs, inList)
         ELSE songs
    ELSE songs

\* the callback of the filter of the search step
songMatches_and(song, parsed) ==
    IF parsed.type = "exact"
    THEN exactMatch(song.title, parsed.term) /\ exactMatch(song.lyrics, parsed.term)
    ELSE fuzzyMatch(song.title, parsed.term) /\ fuzzyMatch(song.lyrics, parsed.term)

songMatches(song, parsed) ==
    IF parsed.type = "exact"
    THEN exactMatch(song.title, parsed.term) \/ exactMatch(song.lyrics, parsed.term)
    ELSE fuzzyMatch(song.title, parsed.term) \/ fuzzyMatch(song.lyrics, parsed.term)

\* the songs after the search step of GET /api/search
filterByQuery(songs, query) ==
    IF Has(query, "q") /\ query.q # << >>
    THEN LET parsed == parseSearchQuery(query.q)
             matches(s) == songMatches(s, parsed)
         IN SelectSeq(songs, matches)
    ELSE songs

InitSearch ==
    /\ loginAttempts = << >>
    /\ admin = [password |-> InitialPassword]
    /\ now = 0
    /\ adminPassword = InitialPassword
    /\ \E songs \in StoredSongs, lists \in StoredLists :
           data = [InitialData EXCEPT !.songs = songs, !.lists = lists]
    /\ res = [op |-> "none"]

\* one request is served from each stored state: a GET route changes nothing
\* that a later request reads
GetSongs ==
    /\ res.op = "none"
    /\ LET sorted == sortSongs(data.songs)
       IN res' = [op |-> "GET /api/songs", status |-> 200, input |-> data.songs,
                  inputAfter |-> sorted.songs, ret |-> sorted.ret]
    /\ StaysAtRest

GetSearch(query) ==
    /\ res.op = "none"
    /\ LET candidates == filterByList(data.songs, data.lists, query)
           songs == filterByQuery(candidates, query)
           sorted == sortSongs(songs)
       IN res' = [op |-> "GET /api/search", query |-> query, status |-> 200,
                  candidates |-> candidates, input |-> songs,
                  inputAfter |-> sorted.songs, ret |-> sorted.ret]
    /\ StaysAtRest

NextSearch ==
    \/ GetSongs
    \/ \E query \in SearchQueries : GetSearch(query)

SpecSearch == InitSearch /\ [][NextSearch]_vars

\* the matcher GET /api/search uses for the text of a song under q
Matcher(text, q) ==
    IF parseSearchQuery(q).type = "exact"
    THEN exactMatch(text, parseSearchQuery(q).term)
    ELSE fuzzyMatch(text, parseSearchQuery(q).term)

(* C12: the result of GET /api/search contains exactly the candidate songs for
   which either no query is supplied, or the matcher of the parsed query kind
   is true for the song's title or for its lyrics; it contains no other song
   and no song twice. *)
C12_SearchResultIsMatchingCandidates ==
    res.op = "GET /api/search" =>
        LET wanted == {s \in Range(res.candidates) :
                          \/ ~Has(res.query, "q")
                          \/ Matcher(s.title, res.query.q)
                          \/ Matcher(s.lyrics, res.query.q)}
        IN /\ Range(res.candidates) \subseteq Range(data.songs)
           /\ Range(res.ret) = wanted
           /\ Len(res.ret) = Cardinality(wanted)

\* a fuzzy query matched by the lyrics of one of three songs and by no title
C12_Witness ==
    /\ res.op = "GET /api/search"
    /\ res.query = [q |-> <<"a", "b", "b">>]
    /\ Len(res.candidates) = 3
    /\ Len(res.ret) = 1
    /\ ~Matcher(res.ret[1].title, res.query.q)
    /\ Matcher(res.ret[1].lyrics, res.query.q)

(* C13: when a listId is supplied to the search, the result never contains a
   song whose id is not in the songIds of a stored list with that id, for
   every listId value and every query. Stated for the non-empty listId
   values. *)
C13_ResultWithinSuppliedList ==
    res.op = "GET /api/search" /\ Has(res.query, "listId") /\ res.query.listId # "" =>
        \A k \in DOMAIN res.ret :
            \E j \in DOMAIN data.lists :
                /\ data.lists[j].id = res.query.listId
                /\ res.ret[k].id \in Range(data.lists[j].songIds)

\* a is at most b in the order of localeCompare
KeyLeq(a, b) ==
    \/ Len(a) <= Len(b) /\ SubSeq(b, 1, Len(a)) = a
    \/ \E i \in 1..Len(a) :
           /\ i <= Len(b)
           /\ SubSeq(a, 1, i - 1) = SubSeq(b, 1, i - 1)
           /\ rank(a[i]) < rank(b[i])

Count(x, seq) == Cardinality({k \in DOMAIN seq : seq[k] = x})

(* C14: the output of sortSongs, and so of GET /api/songs and of
   GET /api/search for every query and listId, is a permutation of its input
   in which every adjacent pair a, b satisfies
   sortKey(a.title) <= sortKey(b.title); the input sequence is left
   unmodified. *)
C14_SortedPermutationInputKept ==
    res.op \in {"GET /api/songs", "GET /api/search"} =>
        /\ Len(res.ret) = Len(res.input)
        /\ \A x \in Range(res.input) \cup Range(res.ret) :
               Count(x, res.ret) = Count(x, res.input)
        /\ \A k \in 1..(Len(res.ret) - 1) :
               KeyLeq(librarySortKey(res.ret[k].title), librarySortKey(res.ret[k + 1].title))
        /\ res.inputAfter = res.input
        /\ res.op = "GET /api/songs" => res.input = data.songs

\* a search within a list with useCustomOrder set whose songs are stored out
\* of key order
C14_Witness ==
    /\ res.op = "GET /api/search"
    /\ res.query = [listId |-> "l1"]
    /\ Len(data.lists) = 1
    /\ Has(data.lists[1], "useCustomOrder")
    /\ data.lists[1].useCustomOrder
    /\ Len(res.ret) = 2
    /\ res.ret # res.input
    /\ res.ret[1].title = <<"T", "h", "e", " ", "b">>

----------------------------------------------------------------------------
(* The song and list routes that write the data file *)

MaxLibrarySongs == 2

\* generateId returns an id that no stored song or list has: the ids it can
\* return, as opaque values
SongIds == {1, 2, 3}

ListIds == {"l1", "l2"}

\* an id no song ever has
StaleSongId == 9

\* req.body of POST and PUT /api/songs: a field that is not sent is not a field
SongRequestBodies ==
    {[title |-> <<"a">>],
     [title |-> << >>, lyrics |-> <<"c">>],
     [title |-> <<" ", "b", " ">>, lyrics |-> <<"c", " ">>]}

\* req.body of POST and PUT /api/lists
ListRequestBodies ==
    {[name |-> <<"o", " ">>],
     [name |-> <<"o">>, songIds |-> <<1, 2, 1>>, useCustomOrder |-> TRUE],
     [songIds |-> <<3, StaleSongId, 1>>]}

\* if (field): the field was sent and is not the empty string
Sent(body, name) == Has(body, name) /\ body[name] # << >>

SongIdsInUse ==
    {data.songs[k].id : k \in DOMAIN data.songs}
    \cup UNION {Range(data.lists[k].songIds) : k \in DOMAIN data.lists}

ListIdsInUse == {data.lists[k].id : k \in DOMAIN data.lists}

\* array.findIndex(x => x.id === id), 0 for -1
findIndex(array, id) ==
    IF \E k \in DOMAIN array : array[k].id = id
    THEN firstOf({k \in DOMAIN array : array[k].id = id})
    ELSE 0

\* array.splice(index, 1)
splice(array, index) == SubSeq(array, 1, index - 1) \o SubSeq(array, index + 1, Len(array))

StaysLoggedOut == UNCHANGED <<loginAttempts, admin, now, adminPassword>>

PostSong(body) ==
    /\ StaysLoggedOut
    /\ IF ~Sent(body, "title") \/ ~Sent(body, "lyrics")
       THEN /\ res' = [op |-> "POST /api/songs", status |-> 400]
            /\ UNCHANGED data
       ELSE /\ Len(data.songs) < MaxLibrarySongs
            /\ \E id \in SongIds \ SongIdsInUse :
                 LET newSong == [id |-> id, title |-> trim(body.title),
                                 lyrics |-> trim(body.lyrics)]
                 IN /\ data' = [data EXCEPT !.songs = Append(@, newSong)]
                    /\ res' = [op |-> "POST /api/songs", status |-> 201, id |-> id]

PutSong_requireLogin(id, body) ==
    /\ StaysLoggedOut
    /\ LET index == findIndex(data.songs, id)
       IN IF ~HasSalt(admin)
          THEN /\ res' = [op |-> "PUT /api/songs/:id", status |-> 401, id |-> id]
               /\ UNCHANGED data
          ELSE IF index = 0
          THEN /\ res' = [op |-> "PUT /api/songs/:id", status |-> 404, id |-> id]
               /\ UNCHANGED data
          ELSE LET song == data.songs[index]
                   titled == IF Sent(body, "title")
                             THEN [song EXCEPT !.title = trim(body.title)] ELSE song
                   updated == IF Sent(body, "lyrics")
                              THEN [titled EXCEPT !.lyrics = trim(body.lyrics)] ELSE titled
               IN /\ data' = [data EXCEPT !.songs[index] = updated]
                  /\ res' = [op |-> "PUT /api/songs/:id", status |-> 200, id |-> id]

PutSong(id, body) ==
    /\ StaysLoggedOut
    /\ LET index == findIndex(data.songs, id)
       IN IF index = 0
          THEN /\ res' = [op |-> "PUT /api/songs/:id", status |-> 404, id |-> id]
               /\ UNCHANGED data
          ELSE LET song == data.songs[index]
                   titled == IF Sent(body, "title")
                             THEN [song EXCEPT !.title = trim(body.title)] ELSE song
                   updated == IF Sent(body, "lyrics")
                              THEN [titled EXCEPT !.lyrics = trim(body.lyrics)] ELSE titled
               IN /\ data' = [data EXCEPT !.songs[index] = updated]
                  /\ res' = [op |-> "PUT /api/songs/:id", status |-> 200, id |-> id]

\* list.songIds = list.songIds.filter(id => id !== req.params.id)
withoutSong_firstOnly(list, id) ==
    LET at == {k \in DOMAIN list.songIds : list.songIds[k] = id}
    IN IF at = {} THEN list
       ELSE [list EXCEPT !.songIds = splice(list.songIds, firstOf(at))]

withoutSong(list, id) ==
    LET kept(songId) == songId # id
    IN [list EXCEPT !.songIds = SelectSeq(list.songIds, kept)]

DeleteSong(id) ==
    /\ StaysLoggedOut
    /\ LET index == findIndex(data.songs, id)
       IN IF index = 0
          THEN /\ res' = [op |-> "DELETE /api/songs/:id", status |-> 404, id |-> id]
               /\ UNCHANGED data
          ELSE /\ data' = [data EXCEPT
                             !.lists = [k \in DOMAIN data.lists |-> withoutSong(data.lists[k], id)],
                             !.songs = splice(data.songs, index)]
               /\ res' = [op |-> "DELETE /api/songs/:id", status |-> 200, id |-> id]

PostList(body) ==
    /\ StaysLoggedOut
    /\ IF ~Sent(body, "name")
       THEN /\ res' = [op |-> "POST /api/lists", status |-> 400]
            /\ UNCHANGED data
       ELSE \E id \in ListIds \ ListIdsInUse :
                 LET newList == [id |-> id, name |-> trim(body.name),
                                 songIds |-> IF Has(body, "songIds") THEN body.songIds ELSE << >>]
                 IN /\ data' = [data EXCEPT !.lists = Append(@, newList)]
                    /\ res' = [op |-> "POST /api/lists", status |-> 201, id |-> id]

\* record with field name set to value, added when the record lacks it
withField(record, name, value) ==
    [f \in DOMAIN record \cup {name} |-> IF f = name THEN value ELSE record[f]]

PutList(id, body) ==
    /\ StaysLoggedOut
    /\ LET index == findIndex(data.lists, id)
       IN IF index = 0
          THEN /\ res' = [op |-> "PUT /api/lists/:id", status |-> 404, id |-> id]
               /\ UNCHANGED data
          ELSE LET list == data.lists[index]
                   named == IF Sent(body, "name")
                            THEN [list EXCEPT !.name = trim(body.name)] ELSE list
                   filled == IF Has(body, "songIds")
                             THEN [named EXCEPT !.songIds = body.songIds] ELSE named
                   updated == IF Has(body, "useCustomOrder")
                              THEN withField(filled, "useCustomOrder", body.useCustomOrder)
                              ELSE filled
               IN /\ data' = [data EXCEPT !.lists[index] = updated]
                  /\ res' = [op |-> "PUT /api/lists/:id", status |-> 200, id |-> id]

DeleteList(id) ==
    /\ StaysLoggedOut
    /\ LET index == findIndex(data.lists, id)
       IN IF index = 0
          THEN /\ res' = [op |-> "DELETE /api/lists/:id", status |-> 404, id |-> id]
               /\ UNCHANGED data
          ELSE /\ data' = [data EXCEPT !.lists = splice(data.lists, index)]
               /\ res' = [op |-> "DELETE /api/lists/:id", status |-> 200, id |-> id]

InitLibrary ==
    /\ AtRest
    /\ res = [op |-> "none"]

NextLibrary ==
    \/ \E body \in SongRequestBodies : PostSong(body)
    \/ \E id \in SongIds, body \in SongRequestBodies : PutSong(id, body)
    \/ \E id \in SongIds : DeleteSong(id)
    \/ \E body \in ListRequestBodies : PostList(body)
    \/ \E id \in ListIds, body \in ListRequestBodies : PutList(id, body)
    \/ \E id \in ListIds : DeleteList(id)

SpecLibrary == InitLibrary /\ [][NextLibrary]_vars

\* seq without the elements equal to x, the others in their order
RECURSIVE Without(_, _)
Without(seq, x) ==
    IF seq = << >> THEN << >>
    ELSE IF Head(seq) = x THEN Without(Tail(seq), x)
    ELSE <<Head(seq)>> \o Without(Tail(seq), x)

DeleteSongSucceeded ==
    /\ res'.op = "DELETE /api/songs/:id"
    /\ res'.status = 200
    /\ DeleteSong(res'.id)

(* C18: after a successful DELETE /api/songs/:id the song is no longer stored
   and no list's songIds contains that id; every other song, and the other ids
   of every list in their original order, are unchanged. *)
C18_DeleteSongRemovesEverywhere ==
    [][DeleteSongSucceeded =>
         /\ \E k \in DOMAIN data.songs : data.songs[k].id = res'.id
         /\ \A k \in DOMAIN data'.songs : data'.songs[k].id # res'.id
         /\ \A k \in DOMAIN data'.lists : res'.id \notin Range(data'.lists[k].songIds)
         /\ Len(data'.songs) = Len(data.songs) - 1
         /\ \A k \in DOMAIN data.songs :
                data.songs[k].id # res'.id => Count(data.songs[k], data'.songs) = 1
         /\ \A j, k \in DOMAIN data'.songs :
                j < k => findIndex(data.songs, data'.songs[j].id) < findIndex(data.songs, data'.songs[k].id)
         /\ DOMAIN data'.lists = DOMAIN data.lists
         /\ \A k \in DOMAIN data.lists :
                /\ data'.lists[k].songIds = Without(data.lists[k].songIds, res'.id)
                /\ data'.lists[k] = [data.lists[k] EXCEPT !.songIds = data'.lists[k].songIds]
         /\ data'.stats = data.stats]_vars

\* song 1 was deleted and left two lists that held it, one of them twice
C18_Witness ==
    /\ res.op = "DELETE /api/songs/:id"
    /\ res.status = 200
    /\ res.id = 1
    /\ Len(data.songs) = 1
    /\ Len(data.lists) = 2
    /\ data.lists[1].songIds = <<2>>
    /\ Has(data.lists[1], "useCustomOrder")
    /\ data.lists[2].songIds = <<3, StaleSongId>>

----------------------------------------------------------------------------
(* The attempt windows over time *)

\* the step is a login, a checkRateLimit or a recordFailedAttempt: res' is
\* the response of this step, not one that a passage of time left in place
\* (a request that leaves both the response and the windows as they were
\* records and deletes nothing)
IsRequest ==
    /\ res'.op \in {"login", "checkRateLimit", "recordFailedAttempt"}
    /\ res' # res \/ loginAttempts' # loginAttempts

\* the request records a failure: a direct recordFailedAttempt or a login
\* answered 401
RecordsFailure ==
    \/ res'.op = "recordFailedAttempt"
    \/ res'.op = "login" /\ res'.status = 401

\* the request deletes the window its identifier had: an expired window
\* purged by checkRateLimit, or a window cleared by a successful login
DeletesWindow ==
    \/ res'.op \in {"login", "checkRateLimit"} /\ res'.purged > 0 /\ Expired(res'.ip)
    \/ res'.op = "login" /\ res'.status = 200

(* C20: in every reachable state each identifier has at most one attempt
   window (the windows are a map keyed by identifier) and the count of every
   window is >= 1; while a window exists its count never decreases: the only
   change to it is +1 on a recorded failure, until the window is deleted, and
   a new window starts at count 1. *)
C20_CountAtLeastOneAndOnlyGrows ==
    [][LET failure(ip) == IsRequest /\ res'.ip = ip /\ RecordsFailure
           deleted(ip) == IsRequest /\ res'.ip = ip /\ DeletesWindow
       IN /\ DOMAIN loginAttempts \subseteq Ips
          /\ DOMAIN loginAttempts' \subseteq Ips
          /\ \A ip \in Ips :
               /\ HasWindow(ip) => loginAttempts[ip].count >= 1
               /\ ip \in DOMAIN loginAttempts' => loginAttempts'[ip].count >= 1
               /\ (HasWindow(ip) /\ ~deleted(ip)) =>
                     /\ ip \in DOMAIN loginAttempts'
                     /\ loginAttempts'[ip].firstAttempt = loginAttempts[ip].firstAttempt
                     /\ \/ loginAttempts'[ip].count = loginAttempts[ip].count
                        \/ /\ loginAttempts'[ip].count = loginAttempts[ip].count + 1
                           /\ failure(ip)
                     /\ failure(ip) =>
                            loginAttempts'[ip].count = loginAttempts[ip].count + 1
               /\ (ip \in DOMAIN loginAttempts' /\ (~HasWindow(ip) \/ deleted(ip))) =>
                     /\ loginAttempts'[ip].count = 1
                     /\ failure(ip)]_vars

\* a window that has grown by recorded failures of logins
C20_Witness ==
    /\ res.op = "login"
    /\ res.status = 401
    /\ res.purged = 0
    /\ HasWindow(res.ip)
    /\ loginAttempts[res.ip].count = 3
    /\ loginAttempts[res.ip].firstAttempt < now

(* C21: recordFailedAttempt increments an existing window's count only when
   now - firstAttempt <= LOCKOUT_TIME; a failure recorded for an identifier
   whose window has expired starts a window with count = 1 and
   firstAttempt = now instead of adding to the expired one. *)
C21_FailureOnExpiredWindowStartsNew ==
    [][(res'.op = "recordFailedAttempt" /\ HasWindow(res'.ip) /\ IsRecordFailedAttempt) =>
          IF Expired(res'.ip)
          THEN loginAttempts'[res'.ip] = [count |-> 1, firstAttempt |-> now]
          ELSE loginAttempts'[res'.ip] =
                   [loginAttempts[res'.ip] EXCEPT !.count = @ + 1]]_vars

(* C27: POST /api/auth/change-password replaces the stored credential iff
   currentPassword and newPassword are both present, newPassword has at least
   6 characters and currentPassword verifies against the stored credential
   (plain or salted), that is, it is the password the administrator has; the
   replacement is a salted hash of newPassword under a newly generated salt,
   and in every other case the credential is unchanged. *)
C27_ChangePasswordIffVerified ==
    [][(res'.op = "change-password" /\ IsChangePassword) =>
          IF /\ res'.currentPassword \notin {undefined, ""}
             /\ res'.newPassword \notin {undefined, ""}
             /\ Len(res'.newPassword) >= 6
             /\ res'.currentPassword = adminPassword
          THEN /\ res'.status = 200
               /\ DOMAIN admin' = {"password", "salt"}
               /\ admin'.salt \in Salts
               /\ admin'.password = hashPassword(res'.newPassword, admin'.salt)
               /\ adminPassword' = res'.newPassword
          ELSE /\ res'.status \in {400, 401}
               /\ admin' = admin
               /\ adminPassword' = adminPassword]_vars

\* a salted credential replaced by another salted credential
C27_Witness ==
    /\ res.op = "change-password"
    /\ res.status = 200
    /\ res.mode = "salted"
    /\ res.currentPassword # InitialPassword
    /\ res.newPassword = InitialPassword
    /\ admin.password = hashPassword(InitialPassword, admin.salt)

----------------------------------------------------------------------------
(* The server reached through login requests only *)

NextLogins ==
    \/ Tick
    \/ \E ip \in Ips, password \in BodyValues : Login(ip, password)

SpecLogins == Init /\ [][NextLogins]_vars

(* C28: through any sequence of login requests an identifier's count never
   exceeds MAX_ATTEMPTS, and a password is compared against the stored
   credential only for an identifier whose window, if it has one that has not
   expired, holds fewer than MAX_ATTEMPTS failures: between the creation of a
   window and its deletion at most MAX_ATTEMPTS wrong passwords of the
   identifier are compared. *)
C28_CountNeverExceedsMaxAttempts ==
    [][/\ \A ip \in DOMAIN loginAttempts : loginAttempts[ip].count <= MAX_ATTEMPTS
       /\ \A ip \in DOMAIN loginAttempts' : loginAttempts'[ip].count <= MAX_ATTEMPTS
       /\ (res'.op = "login" /\ (res' # res \/ loginAttempts' # loginAttempts)) =>
             /\ res'.compared => ~Locked(res'.ip)
             /\ res'.status = 401 =>
                   /\ res'.compared
                   /\ (InWindow(res'.ip) /\ loginAttempts'[res'.ip].firstAttempt = loginAttempts[res'.ip].firstAttempt) =>
                          /\ loginAttempts[res'.ip].count < MAX_ATTEMPTS
                          /\ loginAttempts'[res'.ip].count = loginAttempts[res'.ip].count + 1]_vars

\* the wrong password that fills the window
C28_Witness ==
    /\ res.op = "login"
    /\ res.status = 401
    /\ res.compared
    /\ loginAttempts[res.ip].count = MAX_ATTEMPTS
    /\ \E other \in Ips \ {res.ip} : HasWindow(other) /\ loginAttempts[other].count = MAX_ATTEMPTS

----------------------------------------------------------------------------
(* C24: in fuzzyMatch a query word of one or two characters matches a text
   word only by containment, never through the edit-distance branch, whether
   it is the whole query or one word of a multi-word query: when fuzzyMatch
   is true, every such query word is contained in some text word. *)
C24_ShortWordsMatchByContainmentOnly ==
    res.op = "fuzzyMatch" /\ res.ret =>
        LET nText == toLowerCase(normalizeWhitespace(res.text))
            nTerm == toLowerCase(normalizeWhitespace(res.query))
        IN \A q \in WordSet(nTerm) :
               Len(q) <= 2 => \E t \in WordSet(nText) : includes(t, q)

----------------------------------------------------------------------------
(* The stored songs under POST /api/songs and PUT /api/songs/:id *)

\* req.body of the two routes, with fields that hold whitespace only
SongFormBodies ==
    {[title |-> <<"a">>, lyrics |-> <<"c">>],
     [title |-> <<" ", "b", " ">>, lyrics |-> <<"c", " ">>],
     [title |-> <<" ">>, lyrics |-> <<"c">>],
     [title |-> << >>, lyrics |-> <<"c">>],
     [title |-> <<"a">>],
     [lyrics |-> <<"\n", " ">>]}

NextSongs ==
    \/ \E body \in SongFormBodies : PostSong(body)
    \/ \E id \in SongIds, body \in SongFormBodies : PutSong(id, body)

SpecSongs == InitLibrary /\ [][NextSongs]_vars

(* C25: in every state reached by any sequence of POST /api/songs and
   PUT /api/songs/:id requests from valid data, every stored song has a
   non-empty title and non-empty lyrics with no leading or trailing
   whitespace. *)
C25_StoredSongsHaveTrimmedNonEmptyFields ==
    \A k \in DOMAIN data.songs :
        /\ data.songs[k].title # << >>
        /\ data.songs[k].lyrics # << >>
        /\ trim(data.songs[k].title) = data.songs[k].title
        /\ trim(data.songs[k].lyrics) = data.songs[k].lyrics

----------------------------------------------------------------------------
(* The stats routes, and the error responses of the song, list and stats
   routes *)

\* the views that all songs and lists together collect
MaxViews == 2

\* req.body of the song routes and of the list routes: one that has the
\* required fields and one that lacks them
StoreSongBodies == {[title |-> <<"a">>, lyrics |-> <<"c">>], [title |-> <<"a">>]}

StoreListBodies == {[name |-> <<"o">>, songIds |-> <<1>>], [songIds |-> << >>]}

ensureStats(d) ==
    LET withStats == IF Has(d, "stats") THEN d ELSE withField(d, "stats", << >>)
        stats == withStats.stats
        withSongViews == IF Has(stats, "songViews") THEN stats
                         ELSE withField(stats, "songViews", << >>)
        withListViews == IF Has(withSongViews, "listViews") THEN withSongViews
                         ELSE withField(withSongViews, "listViews", << >>)
    IN [withStats EXCEPT !.stats = withListViews]

\* views[id] after if (!views[id]) views[id] = 0
viewsOf(views, id) == IF id \in DOMAIN views THEN views[id] ELSE 0

\* Object.values(views).reduce((a, b) => a + b, 0)
RECURSIVE totalViews(_)
totalViews(views) ==
    IF DOMAIN views = {} THEN 0
    ELSE LET id == CHOOSE x \in DOMAIN views : TRUE
         IN views[id] + totalViews(MapDelete(views, id))

ViewsLeft == totalViews(data.stats.songViews) + totalViews(data.stats.listViews) < MaxViews

PostStatsSong_countFirst(id) ==
    /\ StaysLoggedOut
    /\ ViewsLeft
    /\ LET d == ensureStats(data)
           counted == [d EXCEPT !.stats.songViews = MapSet(@, id, viewsOf(@, id) + 1)]
       IN /\ data' = counted
          /\ IF findIndex(d.songs, id) = 0
             THEN res' = [op |-> "POST /api/stats/song/:id", status |-> 404, id |-> id]
             ELSE res' = [op |-> "POST /api/stats/song/:id", status |-> 200, id |-> id,
                          views |-> counted.stats.songViews[id]]

PostStatsSong(id) ==
    /\ StaysLoggedOut
    /\ LET d == ensureStats(data)
       IN IF findIndex(d.songs, id) = 0
          THEN /\ res' = [op |-> "POST /api/stats/song/:id", status |-> 404, id |-> id]
               /\ UNCHANGED data
          ELSE /\ ViewsLeft
               /\ LET counted == [d EXCEPT !.stats.songViews =
                                               MapSet(@, id, viewsOf(@, id) + 1)]
                  IN /\ data' = counted
                     /\ res' = [op |-> "POST /api/stats/song/:id", status |-> 200, id |-> id,
                                views |-> counted.stats.songViews[id]]

PostStatsList(id) ==
    /\ StaysLoggedOut
    /\ LET d == ensureStats(data)
       IN IF findIndex(d.lists, id) = 0
          THEN /\ res' = [op |-> "POST /api/stats/list/:id", status |-> 404, id |-> id]
               /\ UNCHANGED data
          ELSE /\ ViewsLeft
               /\ LET counted == [d EXCEPT !.stats.listViews =
                                               MapSet(@, id, viewsOf(@, id) + 1)]
                  IN /\ data' = counted
                     /\ res' = [op |-> "POST /api/stats/list/:id", status |-> 200, id |-> id,
                                views |-> counted.stats.listViews[id]]

GetStats ==
    /\ StaysLoggedOut
    /\ UNCHANGED data
    /\ LET d == ensureStats(data)
       IN res' = [op |-> "GET /api/stats", status |-> 200,
                  totalSongs |-> Len(d.songs), totalLists |-> Len(d.lists),
                  totalSongViews |-> totalViews(d.stats.songViews),
                  totalListViews |-> totalViews(d.stats.listViews)]

NextStore ==
    \/ \E body \in StoreSongBodies : PostSong(body)
    \/ \E id \in SongIds, body \in StoreSongBodies : PutSong(id, body)
    \/ \E id \in SongIds : DeleteSong(id)
    \/ \E body \in StoreListBodies : PostList(body)
    \/ \E id \in ListIds, body \in StoreListBodies : PutList(id, body)
    \/ \E id \in ListIds : DeleteList(id)
    \/ \E id \in SongIds : PostStatsSong(id)
    \/ \E id \in ListIds : PostStatsList(id)
    \/ GetStats

SpecStore == InitLibrary /\ [][NextStore]_vars

ErrorStatuses == {400, 404}

\* the step is a song, list or stats request answered with an error status
AnsweredWithError ==
    /\ res'.op # "none"
    /\ res'.status \in ErrorStatuses
    /\ \/ res' # res
       \/ data' # data

(* C26: every song, list or stats request answered with an error status
   (400 for a missing required field, 404 for an unknown song or list id)
   leaves the stored songs, lists, stats and credential exactly as they were
   before the request. *)
C26_ErrorResponsesLeaveStoreUnchanged ==
    [][AnsweredWithError =>
         /\ data' = data
         /\ admin' = admin
         /\ adminPassword' = adminPassword]_vars

\* a view of an unknown song was refused while songs, lists and views are stored
C26_Witness ==
    /\ res.op = "POST /api/stats/song/:id"
    /\ res.status = 404
    /\ data.songs # << >>
    /\ data.lists # << >>
    /\ totalViews(data.stats.songViews) > 0

----------------------------------------------------------------------------
(* Responses to a locked identifier in two runs that differ in the stored
   credential *)

\* data.admin for every password the administrator may have: as written by
\* ensureDataFile, and as written by the migration or by change-password
Credentials ==
    {[password |-> p] : p \in Passwords}
    \cup {Salted(p, salt) : p \in Passwords, salt \in Salts}

\* the status POST /api/auth/login answers with when data.admin is a
loginStatus(la, a, ip, password, t) ==
    IF ~checkRateLimit(la, ip, t).ret.allowed THEN 429
    ELSE IF HasSalt(a) /\ password = undefined THEN 500
    ELSE IF isValid(a, password) THEN 200
    ELSE 401

\* the status POST /api/auth/change-password answers with when data.admin is a
changePasswordStatus(a, currentPassword, newPassword) ==
    IF ~Truthy(currentPassword) \/ ~Truthy(newPassword) THEN 400
    ELSE IF Len(newPassword) < MinNewPasswordLength THEN 400
    ELSE IF ~isValid(a, currentPassword) THEN 401
    ELSE 200

(* C29: while an identifier is locked, no response it receives depends on
   the stored credential: a login from the locked identifier, and a
   change-password request sent while it is locked, get the status they
   would get under every other stored credential. *)
C29_LockedResponsesIgnoreCredential ==
    [][/\ (res'.op = "login" /\ Locked(res'.ip) /\ IsLogin) =>
              \A a \in Credentials :
                  loginStatus(loginAttempts, a, res'.ip, res'.password, now) = res'.status
       /\ (res'.op = "change-password" /\ (\E ip \in Ips : Locked(ip)) /\ IsChangePassword) =>
              \A a \in Credentials :
                  changePasswordStatus(a, res'.currentPassword, res'.newPassword) = res'.status
      ]_vars

----------------------------------------------------------------------------
(* The writing song and list routes next to logins *)

\* the client that logs in
OpenClient == "10.0.0.1"

NextOpen ==
    \/ \E password \in Passwords : Login(OpenClient, password)
    \/ \E body \in StoreSongBodies : PostSong(body)
    \/ \E id \in SongIds, body \in StoreSongBodies : PutSong(id, body)
    \/ \E id \in SongIds : DeleteSong(id)
    \/ \E body \in StoreListBodies : PostList(body)
    \/ \E id \in ListIds, body \in StoreListBodies : PutList(id, body)
    \/ \E id \in ListIds : DeleteList(id)

SpecOpen == InitLibrary /\ [][NextOpen]_vars

SongMutations == {"PUT /api/songs/:id", "DELETE /api/songs/:id"}

ListMutations == {"PUT /api/lists/:id", "DELETE /api/lists/:id"}

Creations == {"POST /api/songs", "POST /api/lists"}

\* the step is a POST, PUT or DELETE on /api/songs or /api/lists
IsMutation ==
    /\ res'.op \in SongMutations \cup ListMutations \cup Creations
    /\ \/ res' # res
       \/ data' # data

(* C30: song and list mutations do not depend on authentication state:
   whatever logins have succeeded or failed before it, a PUT or DELETE is
   answered 404 exactly when the id is not stored and 200 otherwise, a POST
   is answered 400 without effect or 201 with one more stored song or list,
   no mutation is answered 401, 403 or 429, and no mutation changes the
   attempt windows or the credential. *)
C30_MutationsIgnoreAuthState ==
    [][IsMutation =>
         /\ res'.status \in {200, 201, 400, 404}
         /\ res'.op \in SongMutations =>
                (res'.status = 404) = (findIndex(data.songs, res'.id) = 0)
         /\ res'.op \in ListMutations =>
                (res'.status = 404) = (findIndex(data.lists, res'.id) = 0)
         /\ res'.op \in Creations =>
                /\ res'.status \in {201, 400}
                /\ res'.status = 400 => data' = data
                /\ res'.status = 201 =>
                       Len(data'.songs) + Len(data'.lists) = Len(data.songs) + Len(data.lists) + 1
         /\ res'.status \in ErrorStatuses => data' = data
         /\ UNCHANGED <<loginAttempts, admin, adminPassword>>]_vars

\* a song was updated while the client was locked out and no login had succeeded
C30_Witness ==
    /\ res.op = "PUT /api/songs/:id"
    /\ res.status = 200
    /\ Locked(OpenClient)
    /\ ~HasSalt(admin)

----------------------------------------------------------------------------
(* Concurrent logins.  The handler of POST /api/auth/login is followed line
   by line: checkRateLimit (line 167), the comparison with the migration
   (lines 176-195), and loginAttempts.delete or recordFailedAttempt with the
   response (lines 197-203).  Requests arrive at any time and wait for the
   event loop; res holds every request in flight with the position of its
   handler, and the last response sent. *)

\* requests that are in flight at the same time
MaxInFlight == 2

Slots == 1..MaxInFlight

\* positions of a handler that has been entered and has not responded
Running == {"checked", "compared"}

requests == res.requests

eventLoopFree_preemptive(reqs) == TRUE

\* the handler has no await and no callback: the event loop enters a handler
\* only when no other handler is between its first and its last line
eventLoopFree(reqs) == \A s \in Slots : reqs[s].pc \notin Running

InitConcurrent ==
    /\ AtRest
    /\ res = [op |-> "logins", requests |-> [s \in Slots |-> [pc |-> "idle"]],
              last |-> [status |-> 0]]

\* a login request from ip reaches the server while others are in flight
Arrive(s, ip, password) ==
    /\ requests[s].pc = "idle"
    /\ res' = [res EXCEPT !.requests[s] =
                              [pc |-> "queued", ip |-> ip, password |-> password]]
    /\ StaysAtRest

\* lines 165-174: the handler is entered and calls checkRateLimit
StartLogin(s) ==
    /\ requests[s].pc = "queued"
    /\ eventLoopFree(requests)
    /\ LET r == requests[s]
           c == checkRateLimit(loginAttempts, r.ip, now)
           seen == IF r.ip \in DOMAIN c.loginAttempts
                   THEN c.loginAttempts[r.ip].count ELSE 0
           others == Cardinality({o \in Slots \ {s} : requests[o].pc = "queued"})
       IN /\ loginAttempts' = c.loginAttempts
          /\ IF c.ret.allowed
             THEN res' = [res EXCEPT !.requests[s] =
                              [pc |-> "checked", seen |-> seen, others |-> others] @@ r]
             ELSE res' = [res EXCEPT !.requests[s] = [pc |-> "idle"],
                                     !.last = [status |-> 429, ip |-> r.ip,
                                               others |-> others]]
    /\ UNCHANGED <<admin, now, adminPassword, data>>

\* lines 176-195: readData, the comparison, and the migration with writeData
ComparePassword(s) ==
    /\ requests[s].pc = "checked"
    /\ LET r == requests[s]
       IN /\ \E salt \in Salts : admin' = loginCredential(admin, r.password, salt)
          /\ res' = [res EXCEPT !.requests[s] =
                         [pc |-> "compared", isValid |-> isValid(admin, r.password)] @@ r]
    /\ UNCHANGED <<loginAttempts, now, adminPassword, data>>

\* lines 197-203: the window is cleared or the failure recorded, and the
\* response is sent
FinishLogin(s) ==
    /\ requests[s].pc = "compared"
    /\ LET r == requests[s]
       IN IF r.isValid
          THEN /\ loginAttempts' = clearAttempts(loginAttempts, r.ip)
               /\ res' = [res EXCEPT !.requests[s] = [pc |-> "idle"],
                                      !.last = [status |-> 200, ip |-> r.ip,
                                                others |-> r.others]]
          ELSE /\ loginAttempts' = recordFailedAttempt(loginAttempts, r.ip, now)
               /\ res' = [res EXCEPT !.requests[s] = [pc |-> "idle"],
                                      !.last = [status |-> 401, ip |-> r.ip,
                                                others |-> r.others]]
    /\ UNCHANGED <<admin, now, adminPassword, data>>

NextConcurrent ==
    \/ \E s \in Slots, ip \in Ips, password \in Passwords : Arrive(s, ip, password)
    \/ \E s \in Slots : StartLogin(s)
    \/ \E s \in Slots : ComparePassword(s)
    \/ \E s \in Slots : FinishLogin(s)

SpecConcurrent == InitConcurrent /\ [][NextConcurrent]_vars

\* the handler of the request in slot s sends its response in this step
Responds(s) == requests[s].pc = "compared" /\ res'.requests[s].pc = "idle"

(* C22: for concurrent login requests, each request's sequence check limit,
   compare password, record failure or clear window runs without
   interleaving with another login's sequence: at most one handler is
   between its check and its response; when a handler records a failure the
   window holds the count its check saw (below MAX_ATTEMPTS) plus one, so no
   increment is lost and no request passes the check on a count that another
   request in flight then raises to MAX_ATTEMPTS; when it clears the window,
   the window is absent; no count exceeds MAX_ATTEMPTS. *)
C22_LoginHandlersDoNotInterleave ==
    [][/\ Cardinality({s \in Slots : requests[s].pc \in Running}) <= 1
       /\ \A ip \in DOMAIN loginAttempts' : loginAttempts'[ip].count <= MAX_ATTEMPTS
       /\ \A s \in Slots :
              Responds(s) =>
                  LET r == requests[s]
                      count == IF HasWindow(r.ip) THEN loginAttempts[r.ip].count ELSE 0
                  IN /\ r.seen < MAX_ATTEMPTS
                     /\ count = r.seen
                     /\ IF r.isValid
                        THEN r.ip \notin DOMAIN loginAttempts'
                        ELSE loginAttempts'[r.ip].count = r.seen + 1]_vars

\* the failure that locks an identifier was recorded while another login of
\* that identifier was in flight, which is still waiting
C22_Witness ==
    /\ res.last.status = 401
    /\ res.last.others >= 1
    /\ Locked(res.last.ip)
    /\ \E o \in Slots : requests[o].pc = "queued" /\ requests[o].ip = res.last.ip

----------------------------------------------------------------------------
(* Logins when fs.writeFileSync may fail.  writeData (lines 141-144) writes
   the file in place: fs.writeFileSync opens it with flag 'w', which
   truncates it, and then writes the new text.  A call that throws has left
   the file as it was (the open failed: EACCES, EROFS, EMFILE) or cut short
   (the write after the open failed: ENOSPC, EIO). *)

WriteOutcomes == {"written", "untouched", "truncated"}

\* what is in a data file that was cut short: no JSON document
TruncatedFile == [truncated |-> TRUE]

\* JSON.parse(fs.readFileSync(dataFile)) returns the stored data
Readable(a) == "password" \in DOMAIN a

\* data.admin in the file after a writeFileSync that threw
writeFails(a, outcome) == IF outcome = "truncated" THEN TruncatedFile ELSE a

\* POST /api/auth/login from ip with body {password}, the write of the
\* migrated credential ending in outcome
LoginOnFaultyDisk(ip, password, outcome) ==
    LET c == checkRateLimit(loginAttempts, ip, now)
        req == [op |-> "login", ip |-> ip, password |-> password, purged |-> c.purged]
    IN
    IF ~c.ret.allowed
    THEN Login(ip, password)
    ELSE IF ~Readable(admin)
    THEN \* JSON.parse throws a SyntaxError in readData
         /\ res' = req @@ [status |-> 500, compared |-> FALSE, mode |-> "none"]
         /\ loginAttempts' = c.loginAttempts
         /\ UNCHANGED <<admin, now, adminPassword, data>>
    ELSE IF HasSalt(admin) \/ ~isValid(admin, password) \/ outcome = "written"
    THEN Login(ip, password)
    ELSE \* writeData throws before loginAttempts.delete and before the response
         /\ res' = req @@ [status |-> 500, compared |-> TRUE, mode |-> "plain"]
         /\ loginAttempts' = c.loginAttempts
         /\ admin' = writeFails(admin, outcome)
         /\ data' = writeFails(data, outcome)
         /\ UNCHANGED <<now, adminPassword>>

NextFaulty ==
    \/ Tick
    \/ \E ip \in Ips, password \in Passwords, outcome \in WriteOutcomes :
           LoginOnFaultyDisk(ip, password, outcome)

SpecFaulty == Init /\ [][NextFaulty]_vars

\* the step is a login with the correct plain-text password whose write of the
\* migrated credential failed
MigrationWriteFailed ==
    /\ res'.op = "login"
    /\ res'.status = 500
    /\ res'.mode = "plain"
    /\ Readable(admin)
    /\ ~HasSalt(admin)
    /\ isValid(admin, res'.password)
    /\ \E outcome \in WriteOutcomes \ {"written"} :
           LoginOnFaultyDisk(res'.ip, res'.password, outcome)

(* C23: if persisting the migrated credential fails during a login with the
   correct plain-text password, the stored credential is still the original
   plain-text one (no salt, no partial state), and the next login with that
   password succeeds and migrates again. *)
C23_FailedMigrationLeavesPlainCredential ==
    [][MigrationWriteFailed =>
         /\ admin' = admin
         /\ data' = data
         /\ ~HasSalt(admin')
         /\ loginStatus(loginAttempts', admin', res'.ip, res'.password, now') = 200
         /\ \A salt \in Salts :
                loginCredential(admin', res'.password, salt) = Salted(res'.password, salt)]_vars

====
